---------------------------- MODULE Spec2Model ----------------------------
(***************************************************************************)
(* Model of generate_map.py: the ordered-fallback fetch of the regions     *)
(* GeoJSON, the metadata enrichment and the density colour policy used by  *)
(* the map renderer.                                                       *)
(*                                                                         *)
(* JSON / Python values are tagged records, so that values of different    *)
(* Python types are never equal:                                           *)
(*   None            [none |-> TRUE]                                       *)
(*   str  s          [str |-> s]                                           *)
(*   int  n          [int |-> n]                                           *)
(*   float n/10^dp   [float |-> n, dp |-> dp]                              *)
(*   list           [list |-> <<...>>]                                     *)
(* A dict is a function whose domain is its set of keys.                   *)
(***************************************************************************)
EXTENDS Integers, Sequences, FiniteSets, TLC

VARIABLES
    pc,          \* position of the run
    i,           \* index of the candidate the current loop is at
    last_err,    \* fetch_regions_geojson: last_err
    requests,    \* URLs on which requests.get has been called, in call order
    received,    \* history: what each request produced ("failed" or "collection")
    failure,     \* history: failure of the most recently failed candidate
    body,        \* history: JSON body of the most recent response, as received
    geojson,     \* main: geojson / enrich_regions_metadata: its argument
    regions_dir, \* the directory "Régions" exists
    build_calls, \* number of calls of build_map
    index_html,  \* content written to index.html
    exit_status, \* process exit: message and code
    calls,       \* number of completed calls of enrich_regions_metadata
    history,     \* value of geojson before and after each call of enrich_regions_metadata
    feature,     \* argument of style_function
    style        \* result of style_function

vars == <<pc, i, last_err, requests, received, failure, body, geojson, regions_dir,
          build_calls, index_html, exit_status, calls, history, feature, style>>

-----------------------------------------------------------------------------
(* Bounds *)

MaxFeatures == 2
MaxCalls == 2
MaxDensity == 501

-----------------------------------------------------------------------------
(* Python values *)

None == [none |-> TRUE]
PyStr(s) == [str |-> s]
PyInt(n) == [int |-> n]
PyFloat(n, dp) == [float |-> n, dp |-> dp]

IsStr(v) == DOMAIN v = {"str"}
IsInt(v) == DOMAIN v = {"int"}
IsFloat(v) == DOMAIN v = {"float", "dp"}

IsList(v) == DOMAIN v = {"list"}

\* a JSON array / Python list
JsonList(elems) == [list |-> elems]

EmptyDict == [k \in {} |-> None]

\* dict.get(key) with the default None
Get(d, k) == IF k \in DOMAIN d THEN d[k] ELSE None

\* d[key] = value
SetItem(d, k, v) == [x \in DOMAIN d \cup {k} |-> IF x = k THEN v ELSE d[x]]

\* a dict with the items of a, then those of b
Merge(a, b) == [k \in DOMAIN a \cup DOMAIN b |-> IF k \in DOMAIN b THEN b[k] ELSE a[k]]

\* truth value of a Python object
Truthy(v) ==
    /\ v # None
    /\ v # PyStr("")
    /\ v # PyInt(0)
    /\ v # EmptyDict
    /\ v # JsonList(<<>>)

\* a or b
Or(a, b) == IF Truthy(a) THEN a ELSE b

RECURSIVE Pow10(_)
Pow10(n) == IF n = 0 THEN 1 ELSE 10 * Pow10(n - 1)

\* <<floor(a * 10^dp / b), a * 10^dp mod b>>, digit by digit
RECURSIVE ScaledDiv(_, _, _)
ScaledDiv(a, b, dp) ==
    IF dp = 0 THEN <<a \div b, a % b>>
    ELSE LET p == ScaledDiv(a, b, dp - 1)
         IN  <<p[1] * 10 + ((p[2] * 10) \div b), (p[2] * 10) % b>>

\* round(a / b, dp): the quotient rounded to dp decimals, ties to even
RoundQuotient(a, b, dp) ==
    LET p == ScaledDiv(a, b, dp)
        q == p[1]
        r == p[2]
    IN  PyFloat(IF 2 * r < b THEN q
                ELSE IF 2 * r > b THEN q + 1
                ELSE IF q % 2 = 0 THEN q ELSE q + 1, dp)

\* float(meta["surface_km2"])
IntToFloat(n) == PyFloat(n, 0)

-----------------------------------------------------------------------------
(* enrich_regions_metadata *)

mapping ==
    ("Île-de-France" :> [population |-> 12271794, surface_km2 |-> 12012]) @@
    ("Auvergne-Rhône-Alpes" :> [population |-> 8078271, surface_km2 |-> 69711]) @@
    ("Nouvelle-Aquitaine" :> [population |-> 6073000, surface_km2 |-> 84036]) @@
    ("Occitanie" :> [population |-> 5999000, surface_km2 |-> 72724]) @@
    ("Grand Est" :> [population |-> 5549000, surface_km2 |-> 57441]) @@
    ("Hauts-de-France" :> [population |-> 6006000, surface_km2 |-> 31813]) @@
    ("Provence-Alpes-Côte d'Azur" :> [population |-> 5098000, surface_km2 |-> 31400]) @@
    ("Pays de la Loire" :> [population |-> 3883000, surface_km2 |-> 32082]) @@
    ("Bretagne" :> [population |-> 3420000, surface_km2 |-> 27208]) @@
    ("Centre-Val de Loire" :> [population |-> 2573000, surface_km2 |-> 39151]) @@
    ("Bourgogne-Franche-Comté" :> [population |-> 2807000, surface_km2 |-> 47784]) @@
    ("Normandie" :> [population |-> 3330000, surface_km2 |-> 29906]) @@
    ("Corse" :> [population |-> 351000, surface_km2 |-> 8680]) @@
    ("Guadeloupe" :> [population |-> 376000, surface_km2 |-> 1628]) @@
    ("Martinique" :> [population |-> 353000, surface_km2 |-> 1128]) @@
    ("Guyane" :> [population |-> 294000, surface_km2 |-> 83846]) @@
    ("La Réunion" :> [population |-> 859000, surface_km2 |-> 2512]) @@
    ("Mayotte" :> [population |-> 310000, surface_km2 |-> 376])

\* sum(v["population"] for v in table.values())
RECURSIVE SumPopulation(_, _)
SumPopulation(table, keys) ==
    IF keys = {} THEN 0
    ELSE LET k == CHOOSE x \in keys : TRUE
         IN  table[k].population + SumPopulation(table, keys \ {k})

total_pop == SumPopulation(mapping, DOMAIN mapping)

\* feat.get("properties", {}) or {}
PropsOf(feat) ==
    IF "properties" \in DOMAIN feat /\ Truthy(feat["properties"])
    THEN feat["properties"]
    ELSE EmptyDict

\* props.get("nom") or props.get("name")
NameOf(props) == Or(Get(props, "nom"), Get(props, "name"))

\* mapping.get(name)
MetaOf(name) ==
    IF IsStr(name) /\ name.str \in DOMAIN mapping THEN mapping[name.str] ELSE None

\* mutant: the quotient cut to 1 decimal instead of rounded
Density_Truncated(pop, surf) ==
    IF surf # 0 THEN PyFloat(ScaledDiv(pop, surf, 1)[1], 1) ELSE None

\* round(pop / surf, 1) if surf else None
Density(pop, surf) == IF surf # 0 THEN RoundQuotient(pop, surf, 1) ELSE None

\* round(100 * pop / total, 2)
SharePct(pop, total) == RoundQuotient(100 * pop, total, 2)

\* mutant: an unmatched feature gets the four fields, zero-filled
EnrichFeature_ZeroFill(feat) ==
    LET props == PropsOf(feat)
        meta == MetaOf(NameOf(props))
        hit == [population |-> PyInt(meta.population),
                surface_km2 |-> IntToFloat(meta.surface_km2),
                densite_km2 |-> Density(meta.population, meta.surface_km2),
                part_population_pct |-> SharePct(meta.population, total_pop)]
        miss == [population |-> PyInt(0), surface_km2 |-> PyFloat(0, 0),
                 densite_km2 |-> None, part_population_pct |-> PyFloat(0, 2)]
    IN  SetItem(feat, "properties", Merge(props, IF meta # None THEN hit ELSE miss))

\* mutant: the population is added to the one the feature already carries
EnrichFeature_Accumulates(feat) ==
    LET props == PropsOf(feat)
        meta == MetaOf(NameOf(props))
        prior == IF "population" \in DOMAIN props /\ IsInt(props["population"])
                 THEN props["population"].int ELSE 0
        hit == [population |-> PyInt(prior + meta.population),
                surface_km2 |-> IntToFloat(meta.surface_km2),
                densite_km2 |-> Density(meta.population, meta.surface_km2),
                part_population_pct |-> SharePct(meta.population, total_pop)]
    IN  SetItem(feat, "properties", IF meta # None THEN Merge(props, hit) ELSE props)

\* the body of the loop of enrich_regions_metadata, for one feature
EnrichFeature(feat) ==
    LET props == PropsOf(feat)
        meta == MetaOf(NameOf(props))
        pop == meta.population
        surf == meta.surface_km2
        p1 == SetItem(props, "population", PyInt(pop))
        p2 == SetItem(p1, "surface_km2", IntToFloat(surf))
        p3 == SetItem(p2, "densite_km2", Density(pop, surf))
        p4 == IF total_pop # 0
              THEN SetItem(p3, "part_population_pct", SharePct(pop, total_pop))
              ELSE p3
    IN  SetItem(feat, "properties", IF meta # None THEN p4 ELSE props)

\* geojson.get("features", [])
FeaturesOf(data) == IF "features" \in DOMAIN data THEN data["features"].list ELSE <<>>

\* enrich_regions_metadata(geojson): the value of geojson after the call
enrich_regions_metadata(data) ==
    IF "features" \in DOMAIN data
    THEN [data EXCEPT !["features"] =
              JsonList([n \in DOMAIN FeaturesOf(data) |-> EnrichFeature(FeaturesOf(data)[n])])]
    ELSE data

-----------------------------------------------------------------------------
(* build_map: density_color, style_function and the legend *)

\* float(s) for the strings that denote a number; every other string raises ValueError
NumericStrings == ("75" :> PyFloat(75, 0)) @@ ("250.0" :> PyFloat(2500, 1))

\* float(d): the float, or the exception raised
ToFloat(d) ==
    IF IsFloat(d) THEN d
    ELSE IF IsInt(d) THEN IntToFloat(d.int)
    ELSE IF IsStr(d)
         THEN IF d.str \in DOMAIN NumericStrings THEN NumericStrings[d.str]
              ELSE [raised |-> "ValueError"]
    ELSE [raised |-> "TypeError"]

\* f < bound, for a float f and an integer bound
Less(f, bound) == f.float < bound * Pow10(f.dp)

\* mutant: the upper end of each bucket is inclusive
density_color_InclusiveUpper(d) ==
    LET f == ToFloat(d)
        AtMost(bound) == f.float <= bound * Pow10(f.dp)
    IN  IF ~IsFloat(f) THEN "#2E6EEA"
        ELSE IF AtMost(50) THEN "#D4EEFF"
        ELSE IF AtMost(100) THEN "#9BD1FF"
        ELSE IF AtMost(150) THEN "#6FB2FF"
        ELSE IF AtMost(250) THEN "#3D7CFF"
        ELSE IF AtMost(500) THEN "#2E6EEA"
        ELSE "#1F4DBF"

density_color(d) ==
    LET f == ToFloat(d)
    IN  IF ~IsFloat(f) THEN "#2E6EEA"
        ELSE IF Less(f, 50) THEN "#D4EEFF"
        ELSE IF Less(f, 100) THEN "#9BD1FF"
        ELSE IF Less(f, 150) THEN "#6FB2FF"
        ELSE IF Less(f, 250) THEN "#3D7CFF"
        ELSE IF Less(f, 500) THEN "#2E6EEA"
        ELSE "#1F4DBF"

\* (feature.get("properties") or {}).get("densite_km2")
DensOf(feat) ==
    Get(IF "properties" \in DOMAIN feat /\ Truthy(feat["properties"])
        THEN feat["properties"] ELSE EmptyDict,
        "densite_km2")

style_function(feat) ==
    [fillColor |-> density_color(DensOf(feat)),
     color |-> "#1F4DBF",
     weight |-> 1,
     fillOpacity |-> PyFloat(35, 2)]

\* the swatches of legend_html, in order: background colour and the range its label
\* gives ("< 50", "50-100", ..., ">= 500"; a swatch without "high" has no upper end)
legend ==
    << [background |-> "#D4EEFF", low |-> 0, high |-> 50],
       [background |-> "#9BD1FF", low |-> 50, high |-> 100],
       [background |-> "#6FB2FF", low |-> 100, high |-> 150],
       [background |-> "#3D7CFF", low |-> 150, high |-> 250],
       [background |-> "#2E6EEA", low |-> 250, high |-> 500],
       [background |-> "#1F4DBF", low |-> 500] >>

-----------------------------------------------------------------------------
(* fetch_regions_geojson *)

candidate_urls ==
    << "https://geo.api.gouv.fr/regions?format=geojson&geometry=contour&projection=WGS84",
       "https://geo.api.gouv.fr/regions?format=geojson&geometry=contours&projection=WGS84",
       "https://geo.api.gouv.fr/regions?format=geojson&geometry=contour",
       "https://geo.api.gouv.fr/regions?format=geojson&geometry=contours",
       "https://geo.api.gouv.fr/regions?format=geojson",
       "https://geo.api.gouv.fr/regions?projection=WGS84&format=geojson" >>

fallbacks ==
    << "https://france-geojson.gregoiredavid.fr/repo/regions.geojson",
       "https://raw.githubusercontent.com/gregoiredavid/france-geojson/master/regions.geojson" >>

\* what the try block can raise before the body is looked at:
\* requests.get, r.raise_for_status, r.json
Exceptions == {"ConnectionError", "HTTPError", "JSONDecodeError"}

\* isinstance(data, dict)
IsDict(data) == ~(data = None \/ IsStr(data) \/ IsInt(data) \/ IsFloat(data) \/ IsList(data))

\* mutant: the feature list may be empty
HasFeatures_KeyOnly(data) ==
    IsDict(data) /\ "features" \in DOMAIN data /\ IsList(data["features"])

\* isinstance(data, dict) and data.get("features")
HasFeatures(data) == IsDict(data) /\ Truthy(Get(data, "features"))

\* for key in ("code_insee", "code_region", "id"): if key in props: ... break
RECURSIVE FirstPresent(_, _)
FirstPresent(props, keys) ==
    IF keys = <<>> THEN None
    ELSE IF Head(keys) \in DOMAIN props THEN PyStr(Head(keys))
    ELSE FirstPresent(props, Tail(keys))

\* mutant: name is copied over a nom that is present
NormalizeFeature_Overwrites(feat) ==
    LET props == PropsOf(feat)
        p1 == IF "name" \in DOMAIN props
              THEN SetItem(props, "nom", props["name"])
              ELSE props
        key == FirstPresent(p1, <<"code_insee", "code_region", "id">>)
        p2 == IF "code" \notin DOMAIN p1 /\ key # None
              THEN SetItem(p1, "code", p1[key.str])
              ELSE p1
    IN  SetItem(feat, "properties", p2)

\* the body of the normalisation loop, for one feature
NormalizeFeature(feat) ==
    LET props == PropsOf(feat)
        p1 == IF "nom" \notin DOMAIN props /\ "name" \in DOMAIN props
              THEN SetItem(props, "nom", props["name"])
              ELSE props
        key == FirstPresent(p1, <<"code_insee", "code_region", "id">>)
        p2 == IF "code" \notin DOMAIN p1 /\ key # None
              THEN SetItem(p1, "code", p1[key.str])
              ELSE p1
    IN  SetItem(feat, "properties", p2)

\* the normalisation of a fallback body
Normalize(data) ==
    [data EXCEPT !["features"] =
        JsonList([n \in DOMAIN FeaturesOf(data) |-> NormalizeFeature(FeaturesOf(data)[n])])]

-----------------------------------------------------------------------------
(* Inputs *)

NoData == [nodata |-> TRUE]
NoStyle == [nostyle |-> TRUE]
NoFeature == [nofeature |-> TRUE]
NoExit == [running |-> TRUE]

\* property values a source, or an earlier run of the enrichment, may have left
StaleProps ==
    [code |-> PyStr("53"), population |-> PyInt(1), surface_km2 |-> PyFloat(2, 0),
     densite_km2 |-> PyFloat(999, 1), part_population_pct |-> PyFloat(5000, 2)]

NameDicts ==
    {[nom |-> PyStr(n)] : n \in DOMAIN mapping \cup {"Unknown Land"}}
    \cup {Merge(a, b) :
             a \in {EmptyDict, [nom |-> PyStr("")], [nom |-> None], [nom |-> PyStr("Unknown Land")]},
             b \in {EmptyDict, [name |-> PyStr("Bretagne")], [name |-> PyStr("Unknown Land")]}}
    \cup {[nom |-> PyStr("Corse"), name |-> PyStr("Bretagne")]}

\* the property bags the enrichment is run on
EnrichProps ==
    NameDicts
    \cup {Merge(StaleProps, b) :
             b \in {EmptyDict, [nom |-> PyStr("Bretagne")], [nom |-> PyStr("Unknown Land")],
                    [name |-> PyStr("Bretagne")], [nom |-> PyStr(""), name |-> PyStr("Corse")]}}

Feature(props) == [type |-> "Feature", properties |-> props]

EnrichFeatures ==
    {Feature(p) : p \in EnrichProps} \cup {Feature(None), [type |-> "Feature"]}

RECURSIVE SeqsUpTo(_, _)
SeqsUpTo(S, n) ==
    IF n = 0 THEN {<<>>}
    ELSE LET shorter == SeqsUpTo(S, n - 1)
         IN  shorter \cup {Append(q, x) : q \in {t \in shorter : Len(t) = n - 1}, x \in S}

Collection(fs) == [type |-> "FeatureCollection", features |-> JsonList(fs)]

EnrichInputs ==
    {Collection(fs) : fs \in SeqsUpTo(EnrichFeatures, MaxFeatures)}
    \cup {[type |-> "FeatureCollection"]}

\* the property bags of the features a source answers with
FetchProps ==
    { [nom |-> PyStr("Bretagne"), code |-> PyStr("53")],
      [name |-> PyStr("Bretagne"), code_region |-> PyStr("R53"), id |-> PyStr("I53")],
      [name |-> PyStr("Unknown Land"), code_insee |-> PyStr("C00"),
       code_region |-> PyStr("R00"), id |-> PyStr("I00")],
      [nom |-> PyStr("Corse"), name |-> PyStr("Bretagne"), code |-> PyStr("94"), id |-> PyStr("I94")],
      [nom |-> None, name |-> PyStr("Corse"), id |-> PyStr("I94")],
      [name |-> PyStr("Mayotte")] }

FetchFeatures == {Feature(p) : p \in FetchProps} \cup {Feature(None), [type |-> "Feature"]}

\* the JSON bodies a source answers with: feature collections with at least one
\* feature object, and bodies without a usable feature list.  Every feature is an
\* object whose properties are an object, null or absent, so the normalisation
\* loop never raises.
Bodies ==
    {Collection(<<f>>) : f \in FetchFeatures}
    \cup {Collection(<<Feature([name |-> PyStr("Bretagne"), code_region |-> PyStr("R53"),
                                id |-> PyStr("I53")]),
                       Feature([nom |-> PyStr("Corse"), name |-> PyStr("Bretagne"),
                                code |-> PyStr("94"), id |-> PyStr("I94")])>>),
          Collection(<<Feature([nom |-> PyStr("Bretagne"), code |-> PyStr("53")]),
                       Feature([nom |-> PyStr("Unknown Land")])>>)}
    \cup {Collection(<<>>), [type |-> "FeatureCollection"],
          [type |-> "FeatureCollection", features |-> None],
          [message |-> PyStr("Not Found")], JsonList(<<>>), None}

\* the values of densite_km2 the style function is applied to
Densities ==
    {PyInt(n) : n \in 0..MaxDensity}
    \cup {PyFloat(n, 1) : n \in 0..(10 * MaxDensity)}
    \cup {None, PyStr("n/a"), PyStr("75"), PyStr("250.0")}

StyleFeatures ==
    {Feature([nom |-> PyStr("Bretagne"), densite_km2 |-> d]) : d \in Densities}
    \cup {Feature([nom |-> PyStr("Unknown Land")]), Feature(None), [type |-> "Feature"]}

-----------------------------------------------------------------------------
(* The run of main *)

AllCandidates == candidate_urls \o fallbacks

\* the URL the current loop is at
Url == IF pc = "primary" THEN candidate_urls[i] ELSE fallbacks[i]

\* history: is the body a feature collection with at least one feature
IsFeatureCollection(b) ==
    /\ IsDict(b)
    /\ "features" \in DOMAIN b
    /\ IsList(b["features"])
    /\ Len(b["features"].list) >= 1

Classify(b) == IF IsFeatureCollection(b) THEN "collection" ELSE "failed"

Init ==
    /\ pc = "main"
    /\ i = 0
    /\ last_err = None
    /\ requests = <<>>
    /\ received = <<>>
    /\ failure = None
    /\ body = NoData
    /\ geojson = NoData
    /\ regions_dir = FALSE
    /\ build_calls = 0
    /\ index_html = NoData
    /\ exit_status = NoExit
    /\ calls = 0
    /\ history = <<>>
    /\ feature = NoFeature
    /\ style = NoStyle

\* os.makedirs("Régions", exist_ok=True), then the call of fetch_regions_geojson
MakeDirs ==
    /\ pc = "main"
    /\ regions_dir' = TRUE
    /\ pc' = "primary"
    /\ i' = 1
    /\ UNCHANGED <<last_err, requests, received, failure, body, geojson, build_calls,
                   index_html, exit_status, calls, history, feature, style>>

\* mutant: the primary loop stops one candidate short
Continue_SkipsLastPrimary(loop, n) ==
    IF loop = "primary"
    THEN IF n < Len(candidate_urls) - 1 THEN <<"primary", n + 1>> ELSE <<"fallback", 1>>
    ELSE IF n < Len(fallbacks) THEN <<"fallback", n + 1>> ELSE <<"exhausted", 0>>

\* continue: the next candidate of the loop, the next loop, or the end of both
Continue(loop, n) ==
    IF loop = "primary"
    THEN IF n < Len(candidate_urls) THEN <<"primary", n + 1>> ELSE <<"fallback", 1>>
    ELSE IF n < Len(fallbacks) THEN <<"fallback", n + 1>> ELSE <<"exhausted", 0>>

\* the request of the current URL raises: except Exception as e: last_err = e; continue
Raises(e) ==
    /\ requests' = Append(requests, Url)
    /\ received' = Append(received, "failed")
    /\ last_err' = [url |-> Url, error |-> e]
    /\ failure' = [url |-> Url, error |-> e]
    /\ body' = NoData
    /\ pc' = Continue(pc, i)[1]
    /\ i' = Continue(pc, i)[2]
    /\ UNCHANGED <<geojson, regions_dir, build_calls, index_html, exit_status,
                   calls, history, feature, style>>

\* the request of the current URL answers with the JSON body b: the body is
\* returned (after normalisation when asked), or the loop moves on
Responds(b, normalise) ==
    /\ requests' = Append(requests, Url)
    /\ received' = Append(received, Classify(b))
    /\ body' = b
    /\ IF HasFeatures(b)
       THEN /\ geojson' = IF normalise THEN Normalize(b) ELSE b
            /\ pc' = "build"
            /\ UNCHANGED <<i, failure>>
       ELSE /\ failure' = [url |-> Url, error |-> "NoFeatures"]
            /\ pc' = Continue(pc, i)[1]
            /\ i' = Continue(pc, i)[2]
            /\ UNCHANGED geojson
    /\ UNCHANGED <<last_err, regions_dir, build_calls, index_html, exit_status,
                   calls, history, feature, style>>

PrimaryRaises ==
    /\ pc = "primary"
    /\ \E e \in Exceptions : Raises(e)

PrimaryResponds ==
    /\ pc = "primary"
    /\ \E b \in Bodies : Responds(b, FALSE)

FallbackRaises ==
    /\ pc = "fallback"
    /\ \E e \in Exceptions : Raises(e)

FallbackResponds ==
    /\ pc = "fallback"
    /\ \E b \in Bodies : Responds(b, TRUE)

\* mutant: exhaustion returns nothing instead of raising, and main goes on
RaiseSystemExit_ReturnsNone ==
    /\ pc = "exhausted"
    /\ pc' = "build"
    /\ UNCHANGED <<i, last_err, requests, received, failure, body, geojson, regions_dir,
                   build_calls, index_html, exit_status, calls, history, feature, style>>

\* raise SystemExit("Impossible de récupérer les régions (...). Dernière erreur: {last_err}")
RaiseSystemExit ==
    /\ pc = "exhausted"
    /\ pc' = "exit"
    /\ exit_status' = [code |-> 1, message |-> "Impossible de récupérer les régions", detail |-> last_err]
    /\ UNCHANGED <<i, last_err, requests, received, failure, body, geojson, regions_dir,
                   build_calls, index_html, calls, history, feature, style>>

\* build_map(geojson, out_file="index.html"): the enrichment, the styled layer,
\* the legend, m.save and the confirmation
BuildMap ==
    /\ pc = "build"
    /\ build_calls' = build_calls + 1
    /\ geojson' = enrich_regions_metadata(geojson)
    /\ calls' = calls + 1
    /\ history' = <<geojson, geojson'>>
    /\ index_html' = [layer |-> geojson',
                      styles |-> [n \in DOMAIN FeaturesOf(geojson') |-> style_function(FeaturesOf(geojson')[n])],
                      legend |-> legend]
    /\ exit_status' = [code |-> 0, message |-> "Carte générée dans: index.html", detail |-> None]
    /\ pc' = "done"
    /\ UNCHANGED <<i, last_err, requests, received, failure, body, regions_dir, feature, style>>

Next ==
    \/ MakeDirs
    \/ PrimaryRaises
    \/ PrimaryResponds
    \/ FallbackRaises
    \/ FallbackResponds
    \/ RaiseSystemExit
    \/ BuildMap

Spec == Init /\ [][Next]_vars

\* every request is bounded by its timeout and nothing else blocks: the run goes on
FairSpec == Spec /\ WF_vars(Next)

-----------------------------------------------------------------------------
(* The enrichment alone: enrich_regions_metadata called on a collection *)

Idle ==
    /\ i = 0
    /\ last_err = None
    /\ requests = <<>>
    /\ received = <<>>
    /\ failure = None
    /\ body = NoData
    /\ regions_dir = FALSE
    /\ build_calls = 0
    /\ index_html = NoData
    /\ exit_status = NoExit

InitEnrich ==
    /\ Idle
    /\ pc = "enrich"
    /\ geojson \in EnrichInputs
    /\ calls = 0
    /\ history = <<geojson>>
    /\ feature = NoFeature
    /\ style = NoStyle

EnrichCall ==
    /\ pc = "enrich"
    /\ calls < MaxCalls
    /\ geojson' = enrich_regions_metadata(geojson)
    /\ calls' = calls + 1
    /\ history' = Append(history, geojson')
    /\ UNCHANGED <<pc, i, last_err, requests, received, failure, body, regions_dir,
                   build_calls, index_html, exit_status, feature, style>>

NextEnrich == EnrichCall

SpecEnrich == InitEnrich /\ [][NextEnrich]_vars

-----------------------------------------------------------------------------
(* The colour policy alone: style_function called on a feature *)

InitStyle ==
    /\ Idle
    /\ pc = "style"
    /\ geojson = NoData
    /\ calls = 0
    /\ history = <<>>
    /\ feature \in StyleFeatures
    /\ style = NoStyle

StyleCall ==
    /\ pc = "style"
    /\ style = NoStyle
    /\ style' = style_function(feature)
    /\ UNCHANGED <<pc, i, last_err, requests, received, failure, body, geojson, regions_dir,
                   build_calls, index_html, exit_status, calls, history, feature>>

NextStyle == StyleCall

SpecStyle == InitStyle /\ [][NextStyle]_vars

-----------------------------------------------------------------------------
(* Properties of the enrichment (checked under SpecEnrich) *)

EnrichmentKeys == {"population", "surface_km2", "densite_km2", "part_population_pct"}

\* the feature's name is a key of the metadata table
NameInTable(feat) ==
    LET name == NameOf(PropsOf(feat))
    IN  IsStr(name) /\ name.str \in DOMAIN mapping

\* the features before the first call and after it
Before == FeaturesOf(history[1])
After == FeaturesOf(history[2])

TableValuesSet(before, after) ==
    LET meta == mapping[NameOf(PropsOf(before)).str]
        props == PropsOf(after)
    IN  /\ EnrichmentKeys \subseteq DOMAIN props
        /\ props["population"] = PyInt(meta.population)
        /\ IsFloat(props["surface_km2"])
        /\ props["surface_km2"].float = meta.surface_km2 * Pow10(props["surface_km2"].dp)

\* the share of a matched feature is 100 * population / (sum over the whole table),
\* to the nearest hundredth: (2m - 1) * total <= 20000 * population <= (2m + 1) * total
\* for the share m / 100, the products computed in base 10000
ShareOfWholeTable(before, after) ==
    LET meta == mapping[NameOf(PropsOf(before)).str]
        share == PropsOf(after)["part_population_pct"]
        Base == 10000
        Times(a, b) == <<(a \div Base) * b + (((a % Base) * b) \div Base), ((a % Base) * b) % Base>>
        Leq(x, y) == x[1] < y[1] \/ (x[1] = y[1] /\ x[2] <= y[2])
        target == <<2 * meta.population, 0>>
    IN  /\ share = PyFloat(share.float, 2)
        /\ share.float >= 1
        /\ Leq(Times(total_pop, 2 * share.float - 1), target)
        /\ Leq(target, Times(total_pop, 2 * share.float + 1))

\* C6 as stated: population and area are the table's values, the density EQUALS
\* population divided by area (null when the area is zero), and the share is
\* 100 * population / (sum of all table populations) rounded to 2 decimals.
C6_Original_DensityIsQuotient ==
    calls >= 1 =>
        \A n \in DOMAIN Before :
            NameInTable(Before[n]) =>
                LET meta == mapping[NameOf(PropsOf(Before[n])).str]
                    dens == PropsOf(After[n])["densite_km2"]
                IN  /\ TableValuesSet(Before[n], After[n])
                    /\ IF meta.surface_km2 = 0 THEN dens = None
                       ELSE /\ IsFloat(dens)
                            /\ dens.float * meta.surface_km2 = meta.population * Pow10(dens.dp)
                    /\ ShareOfWholeTable(Before[n], After[n])

\* C6 amended: population and area are the table's values, the density is
\* population divided by area ROUNDED TO 1 DECIMAL (null when the area is zero), and
\* the share is 100 * population / (sum of all table populations) rounded to 2
\* decimals, the denominator being the whole table.
C6_DensityRoundedShareOfTable ==
    /\ \A p \in {0, 1, 3420000} : Density(p, 0) = None
    /\ calls >= 1 =>
        \A n \in DOMAIN Before :
            NameInTable(Before[n]) =>
                LET meta == mapping[NameOf(PropsOf(Before[n])).str]
                    dens == PropsOf(After[n])["densite_km2"]
                    diff == dens.float * meta.surface_km2 - 10 * meta.population
                IN  /\ TableValuesSet(Before[n], After[n])
                    /\ IF meta.surface_km2 = 0 THEN dens = None
                       ELSE /\ dens = PyFloat(dens.float, 1)
                            /\ 2 * diff <= meta.surface_km2
                            /\ 2 * diff >= -meta.surface_km2
                    /\ ShareOfWholeTable(Before[n], After[n])

\* a matched feature that carried other values for the four fields has been
\* enriched, in a collection that also holds an unmatched feature
C6_Witness ==
    /\ calls >= 1
    /\ \E n, m \in DOMAIN Before :
          /\ NameInTable(Before[n])
          /\ Get(PropsOf(Before[n]), "nom") = PyStr("Bretagne")
          /\ "population" \in DOMAIN PropsOf(Before[n])
          /\ PropsOf(After[n])["densite_km2"] = PyFloat(1257, 1)
          /\ PropsOf(After[n])["part_population_pct"] = PyFloat(506, 2)
          /\ ~NameInTable(Before[m])

\* C7: enrich_regions_metadata is idempotent: a second call in a row leaves the
\* collection as the first call left it.
C7_Idempotent ==
    calls >= 2 => history[3] = history[2]

\* two calls have run on a collection that the first call changed and that carried
\* enrichment fields from before
C7_Witness ==
    /\ calls = 2
    /\ history[2] # history[1]
    /\ \E n \in DOMAIN Before :
          /\ NameInTable(Before[n])
          /\ EnrichmentKeys \subseteq DOMAIN PropsOf(Before[n])

-----------------------------------------------------------------------------
(* Properties of the colour policy (checked under SpecStyle) *)

\* the density of the styled feature, in tenths, when it is an int or a float
IsNumber(d) == IsInt(d) \/ IsFloat(d)
Tenths(d) == IF IsInt(d) THEN 10 * d.int ELSE d.float * Pow10(1 - d.dp)

\* C3: density_color is an inclusive-lower / exclusive-upper step function over
\* the buckets starting at 0, 50, 100, 150, 250 and 500: a density d >= 0 gets the
\* colour of the bucket whose range [low, high) holds it, the colours being those
\* of the legend in order.
C3_StepFunction ==
    /\ [k \in 1..6 |-> legend[k].low] = <<0, 50, 100, 150, 250, 500>>
    /\ [k \in 1..5 |-> legend[k].high] = <<50, 100, 150, 250, 500>>
    /\ (style # NoStyle /\ IsNumber(DensOf(feature))) =>
            \A k \in 1..6 :
                (/\ 10 * legend[k].low <= Tenths(DensOf(feature))
                 /\ k < 6 => Tenths(DensOf(feature)) < 10 * legend[k].high)
                => style.fillColor = legend[k].background

\* a feature whose density is exactly 50.0 has been styled with the second colour
C3_Witness ==
    /\ style # NoStyle
    /\ DensOf(feature) = PyFloat(500, 1)
    /\ style.fillColor = legend[2].background
    /\ style.fillColor # legend[1].background

\* C4 as stated: the six bucket colours and the default colour are seven pairwise
\* distinct colours, so a feature without a numeric density is never filled with
\* the colour of a density bucket.
C4_Original_SevenDistinctColours ==
    /\ \A j, k \in 1..6 : legend[j].background = legend[k].background => j = k
    /\ (style # NoStyle /\ ~IsFloat(ToFloat(DensOf(feature)))) =>
            \A k \in 1..6 : style.fillColor # legend[k].background

-----------------------------------------------------------------------------
(* Properties of the run of main (checked under Spec and FairSpec) *)

Returned == pc \in {"build", "done"}

\* every candidate of both lists has been contacted and none answered with a
\* feature collection
AllFailed ==
    /\ Len(received) = Len(AllCandidates)
    /\ \A j \in DOMAIN received : received[j] # "collection"

C2_Original_LastFailureReported ==
    (AllFailed /\ pc = "exit") =>
        /\ exit_status.code # 0
        /\ exit_status.detail # None
        /\ exit_status.detail.url = failure.url

\* C8: after total exhaustion main never calls build_map, the enrichment never runs
\* and index.html is never written; the run ends with a non-zero exit.
C8_HardStop ==
    AllFailed =>
        /\ pc \in {"exhausted", "exit"}
        /\ build_calls = 0
        /\ calls = 0
        /\ geojson = NoData
        /\ index_html = NoData
        /\ pc = "exit" => exit_status.code # 0

\* all eight candidates have failed and the process has exited
C8_Witness ==
    /\ pc = "exit"
    /\ AllFailed
    /\ requests = AllCandidates
    /\ regions_dir

\* C9: when a fallback candidate is the one returned, every feature of the
\* returned collection is normalised: nom = name when nom was absent and name
\* present; code = the value of the first key present among code_insee,
\* code_region, id when code was absent (code stays absent when none is present);
\* a nom or code already present is kept, and no other property changes.
C9_FallbackNormalized ==
    (pc = "build" /\ Len(requests) > Len(candidate_urls)) =>
        /\ DOMAIN FeaturesOf(geojson) = DOMAIN FeaturesOf(body)
        /\ \A n \in DOMAIN FeaturesOf(body) :
              LET old == PropsOf(FeaturesOf(body)[n])
                  new == PropsOf(FeaturesOf(geojson)[n])
                  Has(k) == k \in DOMAIN old
              IN  /\ IF Has("nom") THEN Get(new, "nom") = old["nom"] /\ "nom" \in DOMAIN new
                     ELSE IF Has("name") THEN "nom" \in DOMAIN new /\ new["nom"] = old["name"]
                     ELSE "nom" \notin DOMAIN new
                  /\ IF Has("code") THEN "code" \in DOMAIN new /\ new["code"] = old["code"]
                     ELSE IF Has("code_insee") THEN "code" \in DOMAIN new /\ new["code"] = old["code_insee"]
                     ELSE IF Has("code_region") THEN "code" \in DOMAIN new /\ new["code"] = old["code_region"]
                     ELSE IF Has("id") THEN "code" \in DOMAIN new /\ new["code"] = old["id"]
                     ELSE "code" \notin DOMAIN new
                  /\ DOMAIN new \ {"nom", "code"} = DOMAIN old \ {"nom", "code"}
                  /\ \A k \in DOMAIN old \ {"nom", "code"} : new[k] = old[k]

\* a fallback is returned whose feature had a name, a code_region and an id but
\* neither nom nor code, next to a feature that had both
C9_Witness ==
    /\ pc = "build"
    /\ Len(requests) = Len(candidate_urls) + 1
    /\ body = Collection(<<Feature([name |-> PyStr("Bretagne"), code_region |-> PyStr("R53"),
                                    id |-> PyStr("I53")]),
                           Feature([nom |-> PyStr("Corse"), name |-> PyStr("Bretagne"),
                                    code |-> PyStr("94"), id |-> PyStr("I94")])>>)
    /\ PropsOf(FeaturesOf(geojson)[1])["nom"] = PyStr("Bretagne")
    /\ PropsOf(FeaturesOf(geojson)[1])["code"] = PyStr("R53")
    /\ PropsOf(FeaturesOf(geojson)[2])["nom"] = PyStr("Corse")

\* C10: the candidates are contacted in list order, the six primary variants
\* before the two fallbacks, one request per step, each only after every earlier
\* candidate has failed and none twice, so at most eight requests are issued; and
\* the resolver ends by returning or by the fatal error.
C10_OrderedOnceAndEnds ==
    /\ [](/\ requests = SubSeq(AllCandidates, 1, Len(requests))
          /\ Len(requests) <= 8
          /\ \A j \in 1..(Len(requests) - 1) : received[j] = "failed")
    /\ [][Len(requests') <= Len(requests) + 1]_vars
    /\ <>(pc \in {"build", "done", "exit"})

\* the last fallback is contacted, after the seven candidates before it, and answers
C10_Witness ==
    /\ pc = "build"
    /\ requests = AllCandidates
    /\ \A j \in 1..7 : received[j] = "failed"

=============================================================================
